---- MODULE Spec2Model ----
(***************************************************************************)
(* Model of src/main.py: the JMA forecast -> LINE push notifier.           *)
(*                                                                         *)
(* Strings are sequences of one-character tokens.  The module is ASCII, so *)
(* the Japanese characters of the source are written as tokens:            *)
(*   "sei" = 晴   "re" = れ   "ku" = く   "mo" = も   "ri" = り            *)
(*   "ame" = 雨   "yuki" = 雪  "don" = 曇  "no" = の   "chi" = ち          *)
(*   " "   = U+0020 space      "wsp" = U+3000 full-width space             *)
(*   "x"   = any other non-space character (only in the example inputs)    *)
(*   "sup2" = U+00B2 superscript two (str.isdigit() is True, int() raises) *)
(* Fixed pieces of an f-string (labels, emoji) are single tokens.          *)
(***************************************************************************)
EXTENDS Integers, Sequences, FiniteSets, TLC

VARIABLES
    pc,      \* position of main(): "start", "fetched", "built", "done", "aborted", "off"
    env,     \* os.getenv results: [token, group]
    feed,    \* what the provider would answer: the JSON list of forecast documents
    jma,     \* main's local jma: [fetched, body]
    msg,     \* main's local msg (NoMsg until build_message returned)
    net,     \* the HTTP requests issued so far, in order
    err,     \* the exception that ended the run: [at, kind]
    npc,     \* position of the normalization harness: "raw", "norm", "emoji", "again", "off"
    raw,     \* input of normalize_weather_text
    simple,  \* normalize_weather_text(raw)
    emoji,   \* weather_to_emoji(simple.split("のち")[0])
    again    \* normalize_weather_text(simple)

vars == <<pc, env, feed, jma, msg, net, err, npc, raw, simple, emoji, again>>

-----------------------------------------------------------------------------
(* Bounds of the model *)

MaxLen == 3
MaxPops == 3
MaxTemps == 3
MaxReportLen == 5

-----------------------------------------------------------------------------
(* Python str primitives *)

Range(s) == {s[i] : i \in 1..Len(s)}

Min(a, b) == IF a < b THEN a ELSE b

\* all strings of length <= n over the alphabet A
StringsUpTo(A, n) == UNION {[1..k -> A] : k \in 0..n}

\* str.isspace() of one character
IsSpace(c) == c \in {" ", "wsp"}

\* k occurs in s starting at the 1-based position i
OccursAt(s, k, i) ==
    /\ i >= 1
    /\ i + Len(k) - 1 <= Len(s)
    /\ SubSeq(s, i, i + Len(k) - 1) = k

\* s.replace(old, new), old non-empty: left to right, non-overlapping
RECURSIVE Replace(_, _, _)
Replace(s, old, new) ==
    IF s = <<>> THEN <<>>
    ELSE IF OccursAt(s, old, 1)
         THEN new \o Replace(SubSeq(s, Len(old) + 1, Len(s)), old, new)
         ELSE <<Head(s)>> \o Replace(Tail(s), old, new)

RECURSIVE LStrip(_)
LStrip(s) == IF s # <<>> /\ IsSpace(Head(s)) THEN LStrip(Tail(s)) ELSE s

RECURSIVE RStrip(_)
RStrip(s) ==
    IF s # <<>> /\ IsSpace(s[Len(s)]) THEN RStrip(SubSeq(s, 1, Len(s) - 1)) ELSE s

\* s.strip()
Strip(s) == RStrip(LStrip(s))

\* s.find(k): the lowest 0-based index at which k occurs, -1 when it does not
RECURSIVE FindFrom(_, _, _)
FindFrom(s, k, i) ==
    IF i + Len(k) - 1 > Len(s) THEN -1
    ELSE IF OccursAt(s, k, i) THEN i - 1
    ELSE FindFrom(s, k, i + 1)

Find(s, k) == FindFrom(s, k, 1)

\* k in s
Contains(s, k) == Find(s, k) # -1

\* s.split(sep), sep non-empty: the list of pieces
RECURSIVE Split(_, _)
Split(s, sep) ==
    LET idx == Find(s, sep)
    IN  IF idx = -1 THEN <<s>>
        ELSE <<SubSeq(s, 1, idx)>> \o Split(SubSeq(s, idx + Len(sep) + 1, Len(s)), sep)

\* sep.join(parts)
RECURSIVE Join(_, _)
Join(parts, sep) ==
    IF parts = <<>> THEN <<>>
    ELSE IF Len(parts) = 1 THEN parts[1]
    ELSE parts[1] \o sep \o Join(Tail(parts), sep)

-----------------------------------------------------------------------------
(* normalize_weather_text and weather_to_emoji *)

HARE == <<"sei", "re">>
KUMORI == <<"ku", "mo", "ri">>
AME == <<"ame">>
YUKI == <<"yuki">>
NOCHI == <<"no", "chi">>

keywords == <<HARE, KUMORI, AME, YUKI>>

\* Python compares str by code point: く U+304F < 晴 U+6674 < 雨 U+96E8 < 雪 U+96EA
KwRank(k) == CASE k = KUMORI -> 1 [] k = HARE -> 2 [] k = AME -> 3 [] k = YUKI -> 4

\* tuple comparison (idx, k) < (idx, k)
TupleLess(a, b) == a[1] < b[1] \/ (a[1] = b[1] /\ KwRank(a[2]) < KwRank(b[2]))

\* line 52
CleanSpaces(r) == Strip(Replace(r, <<"wsp">>, <<" ">>))

\* line 55
Canonicalize(t) == Replace(Replace(t, <<"don", "ri">>, KUMORI), <<"don">>, KUMORI)

\* lines 64-68: one (idx, k) per keyword that occurs, in keyword order
RECURSIVE CollectPositions(_, _)
CollectPositions(t, ks) ==
    IF ks = <<>> THEN <<>>
    ELSE LET idx == Find(t, Head(ks))
         IN  (IF idx # -1 THEN <<<<idx, Head(ks)>>>> ELSE <<>>)
                 \o CollectPositions(t, Tail(ks))

RECURSIVE Insert(_, _)
Insert(p, sorted) ==
    IF sorted = <<>> THEN <<p>>
    ELSE IF TupleLess(p, Head(sorted)) THEN <<p>> \o sorted
    ELSE <<Head(sorted)>> \o Insert(p, Tail(sorted))

RECURSIVE SortPositionsFrom(_)
SortPositionsFrom(ps) ==
    IF ps = <<>> THEN <<>> ELSE Insert(Head(ps), SortPositionsFrom(Tail(ps)))

SortPositionsUnsorted(ps) == ps

\* line 69: positions.sort()
SortPositions(ps) == SortPositionsFrom(ps)

\* lines 71-73: append k unless it equals the last appended one
RECURSIVE CollectFound(_, _)
CollectFound(ps, found) ==
    IF ps = <<>> THEN found
    ELSE LET k == Head(ps)[2]
         IN  CollectFound(Tail(ps),
                 IF found = <<>> \/ found[Len(found)] # k
                 THEN Append(found, k) ELSE found)

FallbackCleaned(r, t) == t

\* line 76: return raw.strip()
Fallback(r, t) == Strip(r)

FormatFoundSwapped(found) ==
    IF Len(found) = 1 THEN found[1] ELSE found[2] \o NOCHI \o found[1]

\* lines 79-82
FormatFound(found) ==
    IF Len(found) = 1 THEN found[1] ELSE found[1] \o NOCHI \o found[2]

normalize_weather_text(r) ==
    LET t == Canonicalize(CleanSpaces(r))
        positions == SortPositions(CollectPositions(t, keywords))
        found == CollectFound(positions, <<>>)
    IN  IF found = <<>> THEN Fallback(r, t) ELSE FormatFound(found)

SUNNY == "emoji_sun"
CLOUD == "emoji_cloud"
RAIN == "emoji_rain"
SNOW == "emoji_snow"
PARTLY == "emoji_sun_behind_cloud"

weather_to_emoji(main_weather) ==
    IF Contains(main_weather, HARE) THEN SUNNY
    ELSE IF Contains(main_weather, KUMORI) THEN CLOUD
    ELSE IF Contains(main_weather, AME) THEN RAIN
    ELSE IF Contains(main_weather, YUKI) THEN SNOW
    ELSE PARTLY

MainWeatherWhole(s) == s

\* line 94: simple_weather.split("のち")[0]
MainWeather(s) == Split(s, NOCHI)[1]

-----------------------------------------------------------------------------
(* Numbers: str.isdigit(), int(), and the decimal formatting of an f-string *)

AsciiDigits == <<"0", "1", "2", "3", "4", "5", "6", "7", "8", "9">>

\* int() reads these characters as decimal digits
IsDecimalChar(c) == \E d \in 1..10 : AsciiDigits[d] = c

DigitVal(c) == (CHOOSE d \in 1..10 : AsciiDigits[d] = c) - 1

\* str.isdigit() of one character: decimal digits, and also digits such as U+00B2
IsDigitChar(c) == IsDecimalChar(c) \/ c = "sup2"

\* p.isdigit(): non-empty and every character a digit
IsDigit(p) == p # <<>> /\ \A i \in 1..Len(p) : IsDigitChar(p[i])

\* int(p) succeeds
IntParses(p) == p # <<>> /\ \A i \in 1..Len(p) : IsDecimalChar(p[i])

\* int(p), where it succeeds
RECURSIVE IntOf(_)
IntOf(p) ==
    IF p = <<>> THEN 0
    ELSE 10 * IntOf(SubSeq(p, 1, Len(p) - 1)) + DigitVal(p[Len(p)])

\* str(n) for n >= 0, as an f-string formats it
RECURSIVE Str(_)
Str(n) == IF n < 10 THEN <<AsciiDigits[n + 1]>> ELSE Str(n \div 10) \o <<AsciiDigits[(n % 10) + 1]>>

RECURSIVE MaxOf(_)
MaxOf(vals) ==
    IF Len(vals) = 1 THEN vals[1]
    ELSE LET m == MaxOf(Tail(vals)) IN IF vals[1] > m THEN vals[1] ELSE m

\* line 102: max(pop_vals)
PopMax(vals) == MaxOf(vals)

-----------------------------------------------------------------------------
(* Configuration (lines 7-12) and the forecast document *)

TARGET_FORECAST_AREA_NAME == "Fukuoka-chiho"
TARGET_TEMP_AREA_NAME == "Fukuoka"

\* a key that is absent from a dict / an unset environment variable / None
Absent == <<"<absent>">>

NoMsg == <<>>

LF == <<"LF">>

pick_area_or_first(areas, name) ==
    IF areas = <<>> THEN [ok |-> FALSE, area |-> Absent]
    ELSE IF \E i \in 1..Len(areas) : areas[i].name = name
         THEN [ok |-> TRUE,
               area |-> areas[CHOOSE i \in 1..Len(areas) :
                                 areas[i].name = name /\ \A j \in 1..(i - 1) : areas[j].name # name]]
         ELSE [ok |-> TRUE, area |-> Head(areas)]

\* pick_area: the first area of that name, or the ValueError of line 24
RECURSIVE pick_area(_, _)
pick_area(areas, name) ==
    IF areas = <<>> THEN [ok |-> FALSE, area |-> Absent]
    ELSE IF Head(areas).name = name THEN [ok |-> TRUE, area |-> Head(areas)]
    ELSE pick_area(Tail(areas), name)

\* line 101: the entries that pass the filter
RECURSIVE PopCandidates(_)
PopCandidates(pops) ==
    IF pops = <<>> THEN <<>>
    ELSE (IF IsDigit(Head(pops)) THEN <<Head(pops)>> ELSE <<>>) \o PopCandidates(Tail(pops))

\* lines 113-120
DowMap(dow) ==
    CASE dow = <<"Mon">> -> <<"getsu">>
      [] dow = <<"Tue">> -> <<"ka">>
      [] dow = <<"Wed">> -> <<"sui">>
      [] dow = <<"Thu">> -> <<"moku">>
      [] dow = <<"Fri">> -> <<"kin">>
      [] dow = <<"Sat">> -> <<"do">>
      [] dow = <<"Sun">> -> <<"nichi">>
      [] OTHER -> dow

DateStr(now) ==
    LET date_str == Str(now.month) \o <<"/">> \o Str(now.day) \o <<"(">> \o now.a \o <<")">>
    IN  IF Contains(date_str, <<"(">>) /\ Contains(date_str, <<")">>)
        THEN LET after == Split(date_str, <<"(">>)
                 dow == Split(after[Len(after)], <<")">>)[1]
             IN  IF dow = <<>> THEN date_str ELSE Replace(date_str, dow, DowMap(dow))
        ELSE date_str

ReportTimeNoFallback(report_dt) ==
    LET parts == Split(report_dt, <<"T">>)
        p == IF Len(parts) < 2 THEN <<>> ELSE parts[2]
    IN  SubSeq(p, 1, Min(5, Len(p)))

\* lines 123-127: report_dt.split("T")[1][:5], the raw string on IndexError
ReportTime(report_dt) ==
    LET parts == Split(report_dt, <<"T">>)
    IN  IF Len(parts) < 2 THEN report_dt
        ELSE SubSeq(parts[2], 1, Min(5, Len(parts[2])))

TempLineShownWithOne(temp_min, temp_max) == temp_min # Absent

\* line 135
TempLineShown(temp_min, temp_max) == temp_min # Absent /\ temp_max # Absent

TempLine(temp_min, temp_max) == <<"Kion:">> \o temp_min \o <<"C / ">> \o temp_max \o <<"C">>

PopLine(pop_max) == <<"Kosui:Saidai ">> \o Str(pop_max) \o <<"%(kyo)">>

Failed(kind) == [ok |-> FALSE, msg |-> NoMsg, err |-> kind]

\* build_message (lines 84-143); now is the clock read at line 112
build_message(jma_json, now) ==
    IF Len(jma_json) < 1 THEN Failed("IndexError")
    ELSE
    LET data0 == jma_json[1]
        publishing_office ==
            IF data0.publishingOffice = Absent THEN <<"Kishocho">> ELSE data0.publishingOffice
        report_dt == IF data0.reportDatetime = Absent THEN <<>> ELSE data0.reportDatetime
        ts == data0.timeSeries
        picked_weather == pick_area(ts[1].areas, TARGET_FORECAST_AREA_NAME)
        area_weather == picked_weather.area
        simple_weather == normalize_weather_text(area_weather.weathers[1])
        main_weather == MainWeather(simple_weather)
        emoji_ == weather_to_emoji(main_weather)
        picked_pop == pick_area(ts[2].areas, TARGET_FORECAST_AREA_NAME)
        cands == PopCandidates(picked_pop.area.pops)
        pop_vals == [i \in 1..Len(cands) |-> IntOf(cands[i])]
        pop_max == IF pop_vals # <<>> THEN PopMax(pop_vals) ELSE -1
        picked_temp == pick_area(ts[3].areas, TARGET_TEMP_AREA_NAME)
        temps == picked_temp.area.temps
        temp_min == IF Len(temps) >= 1 THEN temps[1] ELSE Absent
        temp_max == IF Len(temps) >= 2 THEN temps[2] ELSE Absent
        date_str == DateStr(now)
        report_time == ReportTime(report_dt)
        lines ==
            << <<emoji_, " Fukuoka-shi ">> \o date_str,
               <<"Tenki:">> \o simple_weather,
               <<>> >>
            \o (IF TempLineShown(temp_min, temp_max) THEN <<TempLine(temp_min, temp_max)>> ELSE <<>>)
            \o (IF pop_max # -1 THEN <<PopLine(pop_max)>> ELSE <<>>)
            \o << <<>>,
                  <<"Happyo:">> \o report_time \o <<"fw(">> \o publishing_office \o <<"fw)">> >>
    IN  IF Len(ts) < 1 THEN Failed("IndexError")
        ELSE IF ~picked_weather.ok THEN Failed("LookupError")
        ELSE IF Len(area_weather.weathers) < 1 THEN Failed("IndexError")
        ELSE IF Len(ts) < 2 THEN Failed("IndexError")
        ELSE IF ~picked_pop.ok THEN Failed("LookupError")
        ELSE IF \E i \in 1..Len(cands) : ~IntParses(cands[i]) THEN Failed("IntValueError")
        ELSE IF Len(ts) < 3 THEN Failed("IndexError")
        ELSE IF ~picked_temp.ok THEN Failed("LookupError")
        ELSE [ok |-> TRUE, msg |-> Join(lines, LF), err |-> "none"]

-----------------------------------------------------------------------------
(* send_line_to_group and main *)

CredentialsMissingBoth(token, group) ==
    (token = Absent \/ token = <<>>) /\ (group = Absent \/ group = <<>>)

\* line 149: not LINE_CHANNEL_ACCESS_TOKEN or not LINE_GROUP_ID
CredentialsMissing(token, group) ==
    (token = Absent \/ token = <<>>) \/ (group = Absent \/ group = <<>>)

PropagateSwallowed(ok, nextpc) == nextpc

\* lines 165-168: main catches nothing, an exception ends the run
Propagate(ok, nextpc) == IF ok THEN nextpc ELSE "aborted"

NoErr == [at |-> "none", kind |-> "none"]

FetchOutcomes == {"ok", "ConnectionError", "HTTPError", "JSONDecodeError"}

PostOutcomes == {"ok", "ConnectionError", "HTTPError"}

PipelineIdle == /\ pc = "off" /\ env = [token |-> Absent, group |-> Absent]
                /\ feed = <<>> /\ jma = [fetched |-> FALSE, body |-> <<>>]
                /\ msg = NoMsg /\ net = <<>> /\ err = NoErr

NormIdle == /\ npc = "off" /\ raw = <<>> /\ simple = <<>> /\ emoji = "none" /\ again = <<>>

pipelineVars == <<pc, env, feed, jma, msg, net, err>>

normVars == <<npc, raw, simple, emoji, again>>

\* lines 14-18 and 166
FetchJmaForecast ==
    /\ pc = "start"
    /\ \E outcome \in FetchOutcomes :
          /\ net' = Append(net, [method |-> "GET", text |-> <<>>])
          /\ jma' = IF outcome = "ok" THEN [fetched |-> TRUE, body |-> feed] ELSE jma
          /\ err' = IF outcome = "ok" THEN err ELSE [at |-> "fetch", kind |-> outcome]
          /\ pc' = Propagate(outcome = "ok", "fetched")
    /\ UNCHANGED <<env, feed, msg, normVars>>

Nows == {[month |-> 2, day |-> 20, a |-> <<"Thu">>], [month |-> 11, day |-> 6, a |-> <<"kin">>]}

\* line 167
BuildMessage ==
    /\ pc = "fetched"
    /\ \E now \in Nows :
          LET res == build_message(jma.body, now)
          IN  /\ msg' = res.msg
              /\ err' = IF res.ok THEN err ELSE [at |-> "build", kind |-> res.err]
              /\ pc' = Propagate(res.ok, "built")
    /\ UNCHANGED <<env, feed, jma, net, normVars>>

\* lines 145-163 and 168
SendLineToGroup ==
    /\ pc = "built"
    /\ IF CredentialsMissing(env.token, env.group)
       THEN /\ err' = [at |-> "send", kind |-> "RuntimeError"]
            /\ pc' = Propagate(FALSE, "done")
            /\ net' = net
       ELSE \E outcome \in PostOutcomes :
               /\ net' = Append(net, [method |-> "POST", text |-> msg])
               /\ err' = IF outcome = "ok" THEN err ELSE [at |-> "send", kind |-> outcome]
               /\ pc' = Propagate(outcome = "ok", "done")
    /\ UNCHANGED <<env, feed, jma, msg, normVars>>

Next == FetchJmaForecast \/ BuildMessage \/ SendLineToGroup

-----------------------------------------------------------------------------
(* The normalization harness: lines 93-95 applied to a text, then          *)
(* normalize_weather_text applied to its own output                        *)

Normalize ==
    /\ npc = "raw"
    /\ simple' = normalize_weather_text(raw)
    /\ npc' = "norm"
    /\ UNCHANGED <<raw, emoji, again, pipelineVars>>

SelectEmoji ==
    /\ npc = "norm"
    /\ emoji' = weather_to_emoji(MainWeather(simple))
    /\ npc' = "emoji"
    /\ UNCHANGED <<raw, simple, again, pipelineVars>>

Renormalize ==
    /\ npc = "emoji"
    /\ again' = normalize_weather_text(simple)
    /\ npc' = "again"
    /\ UNCHANGED <<raw, simple, emoji, pipelineVars>>

NextNorm == Normalize \/ SelectEmoji \/ Renormalize

-----------------------------------------------------------------------------
(* Inputs *)

Chars == {"sei", "re", "ku", "mo", "ri", "ame", "yuki", "don", "no", "chi", " ", "wsp"}

\* the two long inputs of the docstring (lines 44-45)
DocExample1 ==
    <<"ku", "mo", "ri", " ", "x", "x", "x", "x", "sei", "re", " ",
      "x", "x", "x", "ri", " ", "x", "x", "x", " ", "ame">>

DocExample2 == <<"sei", "re", " ", "x", "x", "x", "x", " ", "ku", "mo", "ri">>

\* a text without keywords, with spaces of both kinds at its ends and inside
NoKeywordExample == <<"wsp", "x", "wsp", " ", "x", " ">>

RawTexts == StringsUpTo(Chars, MaxLen) \cup {DocExample1, DocExample2, NoKeywordExample}

Area(name, w, p, t) == [name |-> name, weathers |-> w, pops |-> p, temps |-> t]

Doc(office, report, ts) ==
    [publishingOffice |-> office, reportDatetime |-> report, timeSeries |-> ts]

OtherWeatherArea == Area("Kitakyushu-chiho", <<YUKI>>, <<>>, <<>>)
OtherPopArea == Area("Kitakyushu-chiho", <<>>, <<<<"9", "0">>>>, <<>>)
OtherTempArea == Area("Yahata", <<>>, <<>>, <<<<"1">>, <<"2">>>>)

\* the area lists a block may carry around the target area a: with or without it
AreaLists(other, a) == {<<>>, <<other>>, <<a>>, <<other, a>>}

WeatherBlocks(ws) ==
    {[areas |-> as] : as \in UNION {AreaLists(OtherWeatherArea,
                          Area(TARGET_FORECAST_AREA_NAME, w, <<>>, <<>>)) : w \in ws}}

PopBlocks(ps) ==
    {[areas |-> as] : as \in UNION {AreaLists(OtherPopArea,
                          Area(TARGET_FORECAST_AREA_NAME, <<>>, p, <<>>)) : p \in ps}}

TempBlocks(ts) ==
    {[areas |-> as] : as \in UNION {AreaLists(OtherTempArea,
                          Area(TARGET_TEMP_AREA_NAME, <<>>, <<>>, t)) : t \in ts}}

GoodWeathers == <<DocExample2, AME>>
GoodPops == << <<"2", "0">>, <<"2", "0">>, <<"6", "0">>, <<"1", "0">> >>
GoodTemps == << <<"1", "5">>, <<"2", "4">> >>
GoodOffice == <<"Fukuoka-kanku-kishodai">>
GoodReport ==
    <<"2", "0", "2", "6", "-", "0", "2", "-", "2", "0", "T", "0", "5", ":", "0", "0",
      ":", "0", "0", "+", "0", "9", ":", "0", "0">>

GoodWeatherBlock ==
    [areas |-> <<OtherWeatherArea, Area(TARGET_FORECAST_AREA_NAME, GoodWeathers, <<>>, <<>>)>>]

GoodPopBlock(p) ==
    [areas |-> <<OtherPopArea, Area(TARGET_FORECAST_AREA_NAME, <<>>, p, <<>>)>>]

GoodTempBlock(t) ==
    [areas |-> <<OtherTempArea, Area(TARGET_TEMP_AREA_NAME, <<>>, <<>>, t)>>]

\* documents of every structure: each block present or not, with or without the area
StructTimeSeries ==
    LET W == WeatherBlocks({<<>>, GoodWeathers})
        P == PopBlocks({GoodPops, << <<"sup2">> >>, << <<>>, <<"-", "5">> >>})
        T == TempBlocks({GoodTemps, <<>>})
    IN  {<<>>} \cup {<<w>> : w \in W} \cup {<<w, p>> : w \in W, p \in P}
               \cup {<<w, p, t>> : w \in W, p \in P, t \in T}

StructFeeds == {<<>>} \cup {<<Doc(GoodOffice, GoodReport, ts)>> : ts \in StructTimeSeries}

PopStrings ==
    {<<>>, <<"1", "0">>, <<"8", "0">>, <<"3", "0">>, <<"0", "8">>, <<"-", "5">>, <<"sup2">>}

PopFeeds ==
    {<<Doc(GoodOffice, GoodReport, <<GoodWeatherBlock, GoodPopBlock(p), GoodTempBlock(GoodTemps)>>)>> :
        p \in StringsUpTo(PopStrings, MaxPops)}

TempStrings == {<<>>, <<"1", "8">>, <<"2", "6">>}

TempFeeds ==
    {<<Doc(GoodOffice, GoodReport, <<GoodWeatherBlock, GoodPopBlock(GoodPops), GoodTempBlock(t)>>)>> :
        t \in StringsUpTo(TempStrings, MaxTemps)}

ReportChars == {"T", "0", ":"}

ReportExamples ==
    {GoodReport, <<"0", "T", "0", "0", ":", "0", "0">>,
     <<"2", "0", "2", "6", "-", "0", "2", "-", "2", "0", " ", "0", "5", ":", "0", "0">>}

ReportFeeds ==
    {<<Doc(o, r, <<GoodWeatherBlock, GoodPopBlock(GoodPops), GoodTempBlock(GoodTemps)>>)>> :
        o \in {GoodOffice, Absent},
        r \in StringsUpTo(ReportChars, MaxReportLen) \cup ReportExamples \cup {Absent}}

CredValues(v) == {Absent, <<>>, <<v>>}

EnvAll == {[token |-> t, group |-> g] : t \in CredValues("token"), g \in CredValues("Cgroup")}

EnvSome == {[token |-> <<"token">>, group |-> <<"Cgroup">>],
            [token |-> Absent, group |-> <<"Cgroup">>]}

InitPipeline(feeds, envs) ==
    /\ pc = "start"
    /\ env \in envs
    /\ feed \in feeds
    /\ jma = [fetched |-> FALSE, body |-> <<>>]
    /\ msg = NoMsg
    /\ net = <<>>
    /\ err = NoErr
    /\ NormIdle

Init == InitPipeline(StructFeeds, EnvAll)

InitPops == InitPipeline(PopFeeds, EnvSome)

InitTemps == InitPipeline(TempFeeds, EnvSome)

InitReport == InitPipeline(ReportFeeds, EnvSome)

InitNorm ==
    /\ PipelineIdle
    /\ npc = "raw"
    /\ raw \in RawTexts
    /\ simple = <<>>
    /\ emoji = "none"
    /\ again = <<>>

Spec == Init /\ [][Next]_vars

SpecPops == InitPops /\ [][Next]_vars

SpecTemps == InitTemps /\ [][Next]_vars

SpecReport == InitReport /\ [][Next]_vars

SpecNorm == InitNorm /\ [][NextNorm]_vars

-----------------------------------------------------------------------------
(* Vocabulary of the properties *)

KeywordSet == {HARE, KUMORI, AME, YUKI}

Occurs(s, k) == \E i \in 1..Len(s) : OccursAt(s, k, i)

\* 1-based position of the first occurrence of k in s
FirstIdx(s, k) ==
    CHOOSE i \in 1..Len(s) : OccursAt(s, k, i) /\ \A j \in 1..(i - 1) : ~OccursAt(s, k, j)

\* the keywords of the input text, 曇り and 曇 read as くもり
Present == {k \in KeywordSet : Occurs(Canonicalize(raw), k)}

StartsWith(s, k) == OccursAt(s, k, 1)

Normalized == npc \in {"norm", "emoji", "again"}

BuildCalled == pc \in {"built", "done"} \/ err.at \in {"build", "send"}

Posts == {i \in 1..Len(net) : net[i].method = "POST"}

Gets == {i \in 1..Len(net) : net[i].method = "GET"}

MsgLines == Split(msg, LF)

LinesStarting(label) == {i \in 1..Len(MsgLines) : MsgLines[i] # <<>> /\ MsgLines[i][1] = label}

\* the data of the configured area in block b of the fed document
TargetArea(b, name) ==
    CHOOSE a \in Range(feed[1].timeSeries[b].areas) : a.name = name

-----------------------------------------------------------------------------
(* C1: a text with keywords normalizes to its distinct keywords in order of *)
(* first occurrence, capped at two: one keyword alone, or "AのちB" with A  *)
(* the earliest and B the second-earliest keyword, A # B.                   *)
C1_FirstTwoDistinctKeywords ==
    (Normalized /\ Present # {}) =>
        LET c == Canonicalize(raw)
        IN  IF Cardinality(Present) = 1
            THEN \E k \in Present : simple = k
            ELSE \E A \in Present : \E B \in Present \ {A} :
                    /\ \A k \in Present \ {A} : FirstIdx(c, A) < FirstIdx(c, k)
                    /\ \A k \in Present \ {A, B} : FirstIdx(c, B) < FirstIdx(c, k)
                    /\ simple = A \o NOCHI \o B

C1_Witness ==
    /\ npc = "norm"
    /\ Cardinality(Present) >= 3
    /\ FirstIdx(Canonicalize(raw), HARE) > FirstIdx(Canonicalize(raw), KUMORI)
    /\ simple = KUMORI \o NOCHI \o HARE

(* C8: normalizing an output of normalize_weather_text returns it unchanged. *)
C8_Idempotent == npc = "again" => again = simple

C8_Witness ==
    /\ npc = "again"
    /\ Present # {}
    /\ Occurs(simple, NOCHI)
    /\ simple # raw
    /\ again = simple

(* C9: a text without keywords normalizes to itself with only its leading   *)
(* and trailing whitespace removed, interior full-width spaces kept.        *)
C9_FallbackIsTrimmedOriginal ==
    (Normalized /\ Present = {}) =>
        \E i \in 1..(Len(raw) + 1) : \E j \in 0..Len(raw) :
            /\ simple = SubSeq(raw, i, j)
            /\ \A n \in 1..(i - 1) : IsSpace(raw[n])
            /\ \A n \in (j + 1)..Len(raw) : IsSpace(raw[n])
            /\ simple # <<>> => (~IsSpace(simple[1]) /\ ~IsSpace(simple[Len(simple)]))

C9_Witness ==
    /\ npc = "norm"
    /\ Present = {}
    /\ Len(simple) < Len(raw)
    /\ \E n \in 1..Len(simple) : simple[n] = "wsp"

(* C5: the header symbol is decided by the first category of the summary,   *)
(* the part before "のち": 晴れ -> sun, くもり -> cloud, 雨 -> rain,          *)
(* 雪 -> snow, and the fallback symbol when that part holds no keyword.     *)
C5_EmojiFromFirstCategory ==
    npc \in {"emoji", "again"} =>
        LET n == IF Occurs(simple, NOCHI) THEN FirstIdx(simple, NOCHI) ELSE Len(simple) + 1
            first == SubSeq(simple, 1, n - 1)
        IN  /\ StartsWith(simple, HARE) => emoji = SUNNY
            /\ StartsWith(simple, KUMORI) => emoji = CLOUD
            /\ StartsWith(simple, AME) => emoji = RAIN
            /\ StartsWith(simple, YUKI) => emoji = SNOW
            /\ (\A k \in KeywordSet : ~Occurs(first, k)) => emoji = PARTLY

C5_Witness ==
    /\ npc = "emoji"
    /\ simple = AME \o NOCHI \o HARE
    /\ emoji = RAIN

-----------------------------------------------------------------------------
(* C6: the temperature line is in the message exactly when the area's temps *)
(* array has at least two entries, and then reads temps[0] and temps[1].    *)
C6_TemperatureLine ==
    msg # NoMsg =>
        LET temps == TargetArea(3, TARGET_TEMP_AREA_NAME).temps
            shown == LinesStarting("Kion:")
        IN  /\ shown # {} <=> Len(temps) >= 2
            /\ Len(temps) >= 2 =>
                  /\ shown = {4}
                  /\ MsgLines[4] = <<"Kion:">> \o temps[1] \o <<"C / ">> \o temps[2] \o <<"C">>

C6_Witness ==
    /\ msg # NoMsg
    /\ Len(TargetArea(3, TARGET_TEMP_AREA_NAME).temps) = 3
    /\ MsgLines[4] = <<"Kion:", "1", "8", "C / ", "2", "6", "C">>

(* C7: for every pops array the message shows the maximum of the integer    *)
(* values of its non-empty all-digit entries, and has no precipitation line *)
(* when there is no such entry.                                             *)
C7_MaxPrecipitationShown ==
    BuildCalled =>
        LET pops == TargetArea(2, TARGET_FORECAST_AREA_NAME).pops
            valid == {i \in 1..Len(pops) : IntParses(pops[i])}
            shown == LinesStarting("Kosui:Saidai ")
        IN  /\ msg # NoMsg
            /\ valid = {} => shown = {}
            /\ valid # {} =>
                  \E i \in valid :
                     /\ \A j \in valid : IntOf(pops[j]) <= IntOf(pops[i])
                     /\ \E n \in shown :
                           MsgLines[n] = <<"Kosui:Saidai ">> \o Str(IntOf(pops[i])) \o <<"%(kyo)">>
                     /\ Cardinality(shown) = 1

\* the same statement, for the arrays in which every isdigit() entry is decimal
C7_HoldsOnDecimalArrays ==
    (\A i \in 1..Len(TargetArea(2, TARGET_FORECAST_AREA_NAME).pops) :
        "sup2" \notin Range(TargetArea(2, TARGET_FORECAST_AREA_NAME).pops[i]))
    => C7_MaxPrecipitationShown

-----------------------------------------------------------------------------
(* C10 *)

ReportRaw == IF feed[1].reportDatetime = Absent THEN <<>> ELSE feed[1].reportDatetime

Office == IF feed[1].publishingOffice = Absent THEN <<"Kishocho">> ELSE feed[1].publishingOffice

Footer(shown) == <<"Happyo:">> \o shown \o <<"fw(">> \o Office \o <<"fw)">>

HasT(r) == \E i \in 1..Len(r) : r[i] = "T"

FirstT(r) == CHOOSE i \in 1..Len(r) : r[i] = "T" /\ \A j \in 1..(i - 1) : r[j] # "T"

\* "<date>T<hh:mm...>": a date without "T", then "T", then two digits, ":", two digits
ExpectedForm(r) ==
    /\ HasT(r)
    /\ LET i == FirstT(r)
       IN  /\ i > 1
           /\ Len(r) >= i + 5
           /\ IsDecimalChar(r[i + 1]) /\ IsDecimalChar(r[i + 2])
           /\ r[i + 3] = ":"
           /\ IsDecimalChar(r[i + 4]) /\ IsDecimalChar(r[i + 5])

(* C10 as stated: the footer shows hh:mm for a timestamp of the expected    *)
(* form, and the raw timestamp for every timestamp that is not of that form *)
C10_RawWheneverFormUnexpected ==
    msg # NoMsg =>
        LET r == ReportRaw
        IN  MsgLines[Len(MsgLines)] =
               Footer(IF ExpectedForm(r) THEN SubSeq(r, FirstT(r) + 1, FirstT(r) + 5) ELSE r)

(* C10 amended: the footer shows the raw timestamp exactly when it holds no *)
(* "T"; otherwise it shows the (up to) five characters that follow the      *)
(* first "T", stopping before the next "T": hh:mm for the expected form.    *)
C10_RawOnlyWithoutT ==
    msg # NoMsg =>
        LET r == ReportRaw
            last == MsgLines[Len(MsgLines)]
        IN  /\ ~HasT(r) => last = Footer(r)
            /\ HasT(r) =>
                  LET i == FirstT(r)
                      later == {j \in (i + 1)..Len(r) : r[j] = "T"}
                      e == IF later = {} THEN Len(r)
                           ELSE (CHOOSE j \in later : \A n \in later : j <= n) - 1
                  IN  last = Footer(SubSeq(r, i + 1, Min(i + 5, e)))
            /\ ExpectedForm(r) => last = Footer(SubSeq(r, FirstT(r) + 1, FirstT(r) + 5))

C10_Witness ==
    /\ msg # NoMsg
    /\ HasT(ReportRaw)
    /\ ~ExpectedForm(ReportRaw)
    /\ ReportRaw = <<"0", "0", "T", "0", ":">>
    /\ MsgLines[Len(MsgLines)] = Footer(<<"0", ":">>)

-----------------------------------------------------------------------------
(* C2, C3, C4: the run as a whole *)

Emojis == {SUNNY, CLOUD, RAIN, SNOW, PARTLY}

\* a complete message: header, weather line, blank, optional lines, blank, footer
Complete(m) ==
    LET ls == Split(m, LF)
        n == Len(ls)
    IN  /\ n \in 5..7
        /\ Len(ls[1]) > 2 /\ ls[1][1] \in Emojis /\ ls[1][2] = " Fukuoka-shi "
        /\ Len(ls[2]) > 1 /\ ls[2][1] = "Tenki:"
        /\ ls[3] = <<>>
        /\ \A i \in 4..(n - 2) : ls[i] # <<>> /\ ls[i][1] \in {"Kion:", "Kosui:Saidai "}
        /\ ls[n - 1] = <<>>
        /\ ls[n] # <<>> /\ ls[n][1] = "Happyo:" /\ ls[n][Len(ls[n])] = "fw)"

(* C2: a run issues the push POST at most once, only after the fetch        *)
(* succeeded and build_message returned a complete message, which is the    *)
(* text posted; a failed fetch or composition ends the run, nothing is      *)
(* retried and nothing is posted.                                           *)
C2_PushAtMostOnceAfterSuccess ==
    /\ Cardinality(Posts) <= 1
    /\ Cardinality(Gets) <= 1
    /\ Posts # {} =>
          /\ jma.fetched
          /\ msg # NoMsg
          /\ Complete(msg)
          /\ \A i \in Posts : net[i].text = msg /\ \E g \in Gets : g < i
    /\ err.at \in {"fetch", "build"} => (pc = "aborted" /\ Posts = {})
    /\ err.at = "fetch" => msg = NoMsg
    /\ pc = "aborted" => (err # NoErr /\ ~ENABLED Next)

C2_Witness ==
    /\ pc = "done"
    /\ Posts = {2}
    /\ Gets = {1}
    /\ net[2].text = msg
    /\ Complete(msg)

BlockName(i) == IF i = 3 THEN TARGET_TEMP_AREA_NAME ELSE TARGET_FORECAST_AREA_NAME

\* the consumed blocks of the fetched document whose area list lacks the configured name
BlocksMissingName ==
    IF feed = <<>> THEN {}
    ELSE {i \in 1..Min(3, Len(feed[1].timeSeries)) :
             \A a \in Range(feed[1].timeSeries[i].areas) : a.name # BlockName(i)}

FirstMissing == CHOOSE i \in BlocksMissingName : \A j \in BlocksMissingName : i <= j

(* C3 as stated: a target area name absent from one of the three consumed   *)
(* blocks makes build_message fail with pick_area's lookup error, the run   *)
(* aborts and no push is attempted.                                         *)
C3_MissingAreaIsLookupError ==
    (BuildCalled /\ BlocksMissingName # {}) =>
        /\ err = [at |-> "build", kind |-> "LookupError"]
        /\ pc = "aborted"
        /\ Posts = {}

(* C3 amended: with a target area name absent from a consumed block,        *)
(* build_message fails, the run aborts and no push is attempted; the error  *)
(* is pick_area's lookup error unless an earlier statement of build_message *)
(* raised first: weathers[0] of an empty list, or int() of a pops entry.    *)
C3_MissingAreaAbortsRun ==
    (BuildCalled /\ BlocksMissingName # {}) =>
        LET i == FirstMissing
            noWeather == i >= 2 /\ TargetArea(1, TARGET_FORECAST_AREA_NAME).weathers = <<>>
            pops == IF i = 3 THEN TargetArea(2, TARGET_FORECAST_AREA_NAME).pops ELSE <<>>
            badPop == \E n \in 1..Len(pops) : "sup2" \in Range(pops[n])
        IN  /\ err.at = "build"
            /\ pc = "aborted"
            /\ msg = NoMsg
            /\ Posts = {}
            /\ err.kind = (IF noWeather THEN "IndexError"
                           ELSE IF badPop THEN "IntValueError"
                           ELSE "LookupError")

C3_Witness ==
    /\ BuildCalled
    /\ BlocksMissingName = {3}
    /\ err = [at |-> "build", kind |-> "LookupError"]
    /\ pc = "aborted"
    /\ Posts = {}

(* C4: with the token or the recipient unset or empty, send_line_to_group   *)
(* raises the configuration error without issuing the POST, and the run     *)
(* aborts.                                                                  *)
C4_NoPushWithoutCredentials ==
    (env.token \in {Absent, <<>>} \/ env.group \in {Absent, <<>>}) =>
        /\ Posts = {}
        /\ pc # "done"
        /\ pc = "built" => ENABLED SendLineToGroup
        /\ (msg # NoMsg /\ pc # "built") =>
              (pc = "aborted" /\ err = [at |-> "send", kind |-> "RuntimeError"])

C4_Witness ==
    /\ env.token = <<"token">>
    /\ env.group = <<>>
    /\ msg # NoMsg
    /\ pc = "aborted"
    /\ err = [at |-> "send", kind |-> "RuntimeError"]
    /\ net = <<[method |-> "GET", text |-> <<>>]>>

====
